---- MODULE Spec2Model ----
(***************************************************************************)
(* A model of the classes of the notebooks                                 *)
(*   notebooks/ex1-getting-data-nn-ready.ipynb                             *)
(*   notebooks/ex3-building-a-robust-configurable-nn.ipynb                 *)
(* Vocab and Tokenizer (textually the same in both), make_vocab, Tokenize, *)
(* Numericalize, CsvClassificationDataset, pad_tensor and PadCollate.      *)
(* A Python object is modelled as its attribute dictionary: an attribute   *)
(* that __init__ never assigns (unk_symbol and unk_id of a Vocab made with *)
(* is_label=True) is absent from the record, and reading it raises         *)
(* AttributeError as it does in Python.                                    *)
(***************************************************************************)
EXTENDS Integers, Sequences, FiniteSets, TLC

----------------------------------------------------------------------------
(* Bounds of the model. *)

\* number of add_word calls the caller makes on one Vocab object
MaxCalls == 4

\* the words of the texts, which go into a vocabulary with unknown support
TextTokens == {"a", "b", "c", "z", "<unk>"}

\* the labels, which go into a vocabulary built with is_label=True
LabelTokens == {"pos", "neg", "neutral"}

\* the tokens that callers pass to to_id
Tokens == TextTokens \cup LabelTokens \cup {"Climax"}

\* the values callers pass as unk_symbol ('<unk>' is the default)
UnkSymbols == {"<unk>", "z"}

\* the ids that callers pass to to_word: assigned ids, unassigned ids, -1
Ids == -1 .. MaxCalls + 1

\* number of examples in one batch
MaxBatch == 3

\* length of the enumerated id sequences
MaxSeqLen == 2

\* length of the texts handed to the tokenizer
MaxTextLen == 4

\* number of rows of the dataset
MaxRows == 2

----------------------------------------------------------------------------
(* Python values. *)

\* an empty dict
EmptyDict == [k \in {} |-> 0]

\* d[k] = v on a dict d
DictSet(d, k, v) == [x \in (DOMAIN d) \cup {k} |-> IF x = k THEN v ELSE d[x]]

\* the outcome of a call: a returned value or a raised exception
Return(v) == [raised |-> FALSE, value |-> v]

Raise(e) == [raised |-> TRUE, value |-> e]

\* reading attribute a of object self
GetAttr(self, a) ==
    IF a \in DOMAIN self THEN Return(self[a]) ELSE Raise("AttributeError")

\* self.a = v
SetAttr(self, a, v) == [x \in (DOMAIN self) \cup {a} |-> IF x = a THEN v ELSE self[x]]

----------------------------------------------------------------------------
(* class Vocab.  An operator that changes the object returns the record     *)
(* [self |-> the object after the call, ret |-> the outcome of the call].   *)

\* add_word with the membership test dropped: every call inserts
add_word_always_inserts(self, w) ==
    [self |-> [self EXCEPT !.word_to_id = DictSet(self.word_to_id, w, self.size),
                           !.id_to_word = DictSet(self.id_to_word, self.size, w),
                           !.size = self.size + 1],
     ret |-> Return(self.size)]

\* add_word numbering from size + 1
add_word_skips_id(self, w) ==
    IF w \notin DOMAIN self.word_to_id
    THEN [self |-> [self EXCEPT !.word_to_id = DictSet(self.word_to_id, w, self.size + 1),
                                !.id_to_word = DictSet(self.id_to_word, self.size + 1, w),
                                !.size = self.size + 1],
          ret |-> Return(self.size)]
    ELSE [self |-> self, ret |-> Return(self.size - 1)]

\* add_word writing the reverse entry after the increment of size
add_word_reverse_late(self, w) ==
    IF w \notin DOMAIN self.word_to_id
    THEN [self |-> [self EXCEPT !.word_to_id = DictSet(self.word_to_id, w, self.size),
                                !.id_to_word = DictSet(self.id_to_word, self.size + 1, w),
                                !.size = self.size + 1],
          ret |-> Return(self.size)]
    ELSE [self |-> self, ret |-> Return(self.size - 1)]

\* add_word inserting a new word at the front (id 0) instead of at size
add_word_at_front(self, w) ==
    IF w \notin DOMAIN self.word_to_id
    THEN [self |-> [self EXCEPT !.word_to_id = DictSet(self.word_to_id, w, 0),
                                !.id_to_word = DictSet(self.id_to_word, 0, w),
                                !.size = self.size + 1],
          ret |-> Return(self.size)]
    ELSE [self |-> self, ret |-> Return(self.size - 1)]

\* add_word without the increment of size
add_word_no_increment(self, w) ==
    IF w \notin DOMAIN self.word_to_id
    THEN [self |-> [self EXCEPT !.word_to_id = DictSet(self.word_to_id, w, self.size),
                                !.id_to_word = DictSet(self.id_to_word, self.size, w)],
          ret |-> Return(self.size)]
    ELSE [self |-> self, ret |-> Return(self.size - 1)]

\* def add_word(self, w)
add_word(self, w) ==
    IF w \notin DOMAIN self.word_to_id
    THEN [self |-> [self EXCEPT !.word_to_id = DictSet(self.word_to_id, w, self.size),
                                !.id_to_word = DictSet(self.id_to_word, self.size, w),
                                !.size = self.size + 1],
          \* size was incremented: size' - 1 is the old size
          ret |-> Return(self.size)]
    ELSE [self |-> self, ret |-> Return(self.size - 1)]

\* to_id answering an absent word with the last id
to_id_last(self, w) ==
    IF w \in DOMAIN self.word_to_id
    THEN Return(self.word_to_id[w])
    ELSE Return(self.size - 1)

\* to_id answering an absent word with 0 whatever the construction mode
to_id_zero(self, w) ==
    IF w \in DOMAIN self.word_to_id
    THEN Return(self.word_to_id[w])
    ELSE Return(0)

\* def to_id(self, w)
to_id(self, w) ==
    IF w \in DOMAIN self.word_to_id
    THEN Return(self.word_to_id[w])
    ELSE GetAttr(self, "unk_id")

\* to_word reading the entry after the asked one
to_word_off_by_one(self, id) ==
    IF id + 1 \in DOMAIN self.id_to_word
    THEN Return(self.id_to_word[id + 1])
    ELSE GetAttr(self, "unk_symbol")

\* to_word answering an absent id with '<unk>' whatever the construction mode
to_word_default(self, id) ==
    IF id \in DOMAIN self.id_to_word
    THEN Return(self.id_to_word[id])
    ELSE Return("<unk>")

\* def to_word(self, id)
to_word(self, id) ==
    IF id \in DOMAIN self.id_to_word
    THEN Return(self.id_to_word[id])
    ELSE GetAttr(self, "unk_symbol")

\* __len__ answering the last id instead of the size
len_last_id(self) == Return(self.size - 1)

\* def __len__(self)
len(self) == Return(self.size)

\* def __init__(self, unk_symbol='<unk>', is_label=False)
Vocab_init(unk_symbol, label) ==
    LET s0 == [size |-> 0, word_to_id |-> EmptyDict, id_to_word |-> EmptyDict]
        s1 == SetAttr(s0, "unk_symbol", unk_symbol)
        r  == add_word(s1, unk_symbol)
    IN  IF ~label THEN SetAttr(r.self, "unk_id", r.ret.value) ELSE s0

----------------------------------------------------------------------------
(* class Tokenizer.  A str is the sequence of its characters. *)

\* the characters of the texts: a lower-case and an upper-case letter, a
\* space and a tab
Chars == {"a", "A", " ", "\t"}

\* c.lower()
LowerChar(c) == IF c = "A" THEN "a" ELSE IF c = "P" THEN "p"
                ELSE IF c = "N" THEN "n" ELSE c

\* w.lower()
Lower(w) == [k \in 1 .. Len(w) |-> LowerChar(w[k])]

\* text.split(sep) for a one-character sep: the pieces between the
\* occurrences of sep, the empty ones included
RECURSIVE Split(_, _)
Split(text, sep) ==
    IF \A k \in 1 .. Len(text) : text[k] # sep
    THEN <<text>>
    ELSE LET i == CHOOSE k \in 1 .. Len(text) :
                      text[k] = sep /\ \A j \in 1 .. k - 1 : text[j] # sep
         IN  <<SubSeq(text, 1, i - 1)>> \o Split(SubSeq(text, i + 1, Len(text)), sep)

\* def __init__(self, lowercase=False)
Tokenizer_init(lowercase) == [lowercase |-> lowercase]

\* def __call__(self, text)
Tokenizer_call(self, text) ==
    LET ws == Split(text, " ")
    IN  [k \in 1 .. Len(ws) |-> IF self.lowercase THEN Lower(ws[k]) ELSE ws[k]]

----------------------------------------------------------------------------
(* pad_tensor and class PadCollate.  A 1-d tensor is the sequence of its    *)
(* elements, a 2-d tensor the sequence of its rows; a batch is a list of    *)
(* tuples whose component 0 is the id sequence and component 1 the label    *)
(* (components are numbered from 1 here).                                   *)

\* max(...) of a non-empty set of integers
Max(S) == CHOOSE m \in S : \A n \in S : n <= m

\* torch.zeros(n, dtype=torch.int64)
Zeros(n) == [k \in 1 .. n |-> 0]

\* pad_tensor putting the zeros in front of vec
pad_tensor_left(vec, pad, dim) ==
    IF dim # 0 THEN Raise("IndexError")
    ELSE IF pad - Len(vec) < 0 THEN Raise("RuntimeError")
    ELSE Return(Zeros(pad - Len(vec)) \o vec)

\* pad_tensor appending a zero also to a vec that is already pad long
pad_tensor_always_pads(vec, pad, dim) ==
    IF dim # 0 THEN Raise("IndexError")
    ELSE IF pad - Len(vec) < 0 THEN Raise("RuntimeError")
    ELSE Return(vec \o Zeros(IF pad = Len(vec) THEN 1 ELSE pad - Len(vec)))

\* pad_tensor filling with -1 instead of zeros
pad_tensor_minus_one(vec, pad, dim) ==
    IF dim # 0 THEN Raise("IndexError")
    ELSE IF pad - Len(vec) < 0 THEN Raise("RuntimeError")
    ELSE Return(vec \o [k \in 1 .. pad - Len(vec) |-> -1])

\* def pad_tensor(vec, pad, dim), vec a 1-d tensor
pad_tensor(vec, pad, dim) ==
    \* pad_size[dim] of a one-element shape list
    IF dim # 0 THEN Raise("IndexError")
    \* torch.zeros of a negative size
    ELSE IF pad - Len(vec) < 0 THEN Raise("RuntimeError")
    ELSE Return(vec \o Zeros(pad - Len(vec)))

\* torch.stack(rows, dim=0) of 1-d tensors: they must have one size
Stack(rows) ==
    IF \A i, j \in 1 .. Len(rows) : Len(rows[i]) = Len(rows[j])
    THEN Return(rows) ELSE Raise("RuntimeError")

\* def __init__(self, dim)
PadCollate_init(dim) == [dim |-> dim]

\* pad_collate stacking the rows in reverse order, the labels in order
pad_collate_reversed_rows(self, batch) ==
    IF batch = << >> THEN Raise("ValueError")
    ELSE IF self.dim # 0 THEN Raise("IndexError")
    ELSE
      LET max_len == Max({Len(batch[i][1]) : i \in 1 .. Len(batch)})
          n == Len(batch)
      IN  IF \E i \in 1 .. n : Len(batch[i]) < 2
          THEN Raise("IndexError")
          ELSE LET xs == Stack([i \in 1 .. n |->
                              pad_tensor(batch[n + 1 - i][1], max_len, self.dim).value])
                   ys == [i \in 1 .. n |-> batch[i][2]]
               IN  IF xs.raised THEN xs ELSE Return(<<xs.value, ys>>)

\* def pad_collate(self, batch)
pad_collate(self, batch) ==
    \* max() of an empty sequence
    IF batch = << >> THEN Raise("ValueError")
    \* x[0].shape[self.dim] of a 1-d tensor
    ELSE IF self.dim # 0 THEN Raise("IndexError")
    ELSE
      LET max_len == Max({Len(batch[i][1]) : i \in 1 .. Len(batch)})
      IN  \* b[1] of a tuple of one component
          IF \E i \in 1 .. Len(batch) : Len(batch[i]) < 2
          THEN Raise("IndexError")
          ELSE LET xs == Stack([i \in 1 .. Len(batch) |->
                              pad_tensor(batch[i][1], max_len, self.dim).value])
                   ys == [i \in 1 .. Len(batch) |-> batch[i][2]]
               IN  IF xs.raised THEN xs ELSE Return(<<xs.value, ys>>)

\* def __call__(self, batch)
PadCollate_call(self, batch) == pad_collate(self, batch)

----------------------------------------------------------------------------
(* make_vocab, Tokenize, Numericalize and CsvClassificationDataset.  In the  *)
(* pipeline a token is a str, hence a sequence of characters.               *)

\* '<unk>', the default of unk_symbol, as a str
UnkStr == <<"<", "u", "n", "k", ">">>

\* the tokens of all the fields, in order: for t in fields: for w in tokenizer(t)
RECURSIVE FieldWords(_, _)
FieldWords(tokenizer_, fields) ==
    IF fields = << >> THEN << >>
    ELSE Tokenizer_call(tokenizer_, Head(fields)) \o FieldWords(tokenizer_, Tail(fields))

\* vocab.add_word(w) for every w of ws, in order
RECURSIVE AddWords(_, _)
AddWords(v, ws) ==
    IF ws = << >> THEN v ELSE AddWords(add_word(v, Head(ws)).self, Tail(ws))

\* make_vocab splitting the fields without the lower-casing of text_tokenizer
make_vocab_own_tokenizer(text_tokenizer, fields, label) ==
    AddWords(Vocab_init(UnkStr, label), FieldWords(Tokenizer_init(FALSE), fields))

\* def make_vocab(fields, is_label=False), with the global text_tokenizer
make_vocab(text_tokenizer, fields, label) ==
    AddWords(Vocab_init(UnkStr, label), FieldWords(text_tokenizer, fields))

\* Tokenize.__init__(self, tokenizer)
Tokenize_init(tokenizer_) == [tokenizer |-> tokenizer_]

\* Tokenize.__call__(self, sample)
Tokenize_call(self, sample_) ==
    [text |-> Tokenizer_call(self.tokenizer, sample_.text),
     label |-> Tokenizer_call(self.tokenizer, sample_.label)]

\* Numericalize.__init__(self, text_vocab, label_vocab)
Numericalize_init(tv, lv) == [text_vocab |-> tv, label_vocab |-> lv]

\* Numericalize._numericalize(self, toks, vocab): the list of the ids, or the
\* exception of the first to_id that raises
numericalize(toks, v) ==
    IF \E k \in 1 .. Len(toks) : to_id(v, toks[k]).raised
    THEN to_id(v, toks[CHOOSE k \in 1 .. Len(toks) :
                         /\ to_id(v, toks[k]).raised
                         /\ \A j \in 1 .. k - 1 : ~to_id(v, toks[j]).raised])
    ELSE Return([k \in 1 .. Len(toks) |-> to_id(v, toks[k]).value])

\* Numericalize.__call__(self, sample)
Numericalize_call(self, sample_) ==
    LET t == numericalize(sample_.text, self.text_vocab)
        l == numericalize(sample_.label, self.label_vocab)
    IN  IF t.raised THEN t
        ELSE IF l.raised THEN l
        \* [0] of an empty list
        ELSE IF l.value = << >> THEN Raise("IndexError")
        ELSE Return([text |-> t.value, label |-> l.value[1]])

\* transforms.Compose([Tokenize(text_tokenizer), Numericalize(text_vocab, label_vocab)])
transform(tokenize, numericalize_, example) ==
    Numericalize_call(numericalize_, Tokenize_call(tokenize, example))

\* CsvClassificationDataset.__getitem__(self, idx), rows numbered from 1
getitem(df, tokenize, numericalize_, idx) ==
    LET example == transform(tokenize, numericalize_,
                             [text |-> df[idx].text, label |-> df[idx].label])
    IN  IF example.raised THEN example
        ELSE Return(<<example.value.text, example.value.label>>)

----------------------------------------------------------------------------
(* class IMDBClassifier: what its embedding table does with the indices. *)

\* IMDBClassifier.__init__: self.embedding = nn.Embedding(vocab_size, emb_size)
IMDBClassifier_init(vocab_size) == [num_embeddings |-> vocab_size]

\* IMDBClassifier.forward(self, texts): self.embedding(texts) raises on an
\* index outside 0 .. num_embeddings-1; otherwise one output row per text
forward(self, texts) ==
    IF \E i \in 1 .. Len(texts) : \E k \in 1 .. Len(texts[i]) :
           texts[i][k] < 0 \/ texts[i][k] >= self.num_embeddings
    THEN Raise("IndexError")
    ELSE Return(Len(texts))

----------------------------------------------------------------------------
(* The state: one Vocab object and what its caller has done with it. *)

VARIABLES
    vocab,      \* the Vocab object (its attribute dictionary)
    unk_symbol, \* the unk_symbol argument the object was constructed with
    is_label,   \* the is_label argument the object was constructed with
    calls,      \* the words the caller has passed to add_word, in call order
    last,       \* the last call on the object: [op, arg, ret]
    batch,      \* the list of examples handed to the collate function
    collated,   \* << >>, or <<the outcome of the collate call on batch>>
    tokenizer,  \* the Tokenizer object
    text,       \* the text handed to the tokenizer
    tokens,     \* << >>, or <<the list the tokenizer returned for text>>
    dataset,    \* the rows of the csv file: [text, label]
    text_vocab, \* the Vocab of the texts, once built
    label_vocab,\* the Vocab of the labels, once built
    sample,     \* << >>, or <<the outcome of the last imdb_dataset[idx]>>
    pc          \* where the notebook is: "start", "ready", "error"; or "idle"

\* the variables of the Vocab object and its caller
vocabVars == <<vocab, unk_symbol, is_label, calls, last>>

\* the variables of the batch collation
collateVars == <<batch, collated>>

\* the variables of the tokenizer
tokenizerVars == <<tokenizer, text, tokens>>

\* the variables of the notebook pipeline
pipelineVars == <<dataset, text_vocab, label_vocab, sample, pc>>

vars == <<vocabVars, collateVars, tokenizerVars, pipelineVars>>

\* a name that is not bound yet
Unbound == [unbound |-> TRUE]

\* no tokenizer is used
TokenizerIdle ==
    /\ tokenizer = Tokenizer_init(FALSE)
    /\ text = << >>
    /\ tokens = << >>

\* no pipeline is run
PipelineIdle ==
    /\ dataset = << >>
    /\ text_vocab = Unbound
    /\ label_vocab = Unbound
    /\ sample = << >>
    /\ pc = "idle"

\* vocab = Vocab(unk_symbol=u, is_label=l)
Init ==
    \E l \in BOOLEAN :
      \E u \in (IF l THEN {"<unk>"} ELSE UnkSymbols) :
        /\ vocab = Vocab_init(u, l)
        /\ unk_symbol = u
        /\ is_label = l
        /\ calls = << >>
        /\ last = [op |-> "__init__", arg |-> u, ret |-> Return("None")]
        /\ batch = << >>
        /\ collated = << >>
        /\ TokenizerIdle
        /\ PipelineIdle

\* vocab.add_word(w), called on the tokens the vocabulary is built from
AddWord(w) ==
    LET r == add_word(vocab, w) IN
    /\ Len(calls) < MaxCalls
    /\ w \in (IF is_label THEN LabelTokens ELSE TextTokens)
    /\ vocab' = r.self
    /\ calls' = Append(calls, w)
    /\ last' = [op |-> "add_word", arg |-> w, ret |-> r.ret]
    /\ UNCHANGED <<unk_symbol, is_label, collateVars, tokenizerVars, pipelineVars>>

\* a to_id that inserts the word it does not find
ToId_inserts(w) ==
    /\ last' = [op |-> "to_id", arg |-> w, ret |-> to_id(vocab, w)]
    /\ vocab' = add_word(vocab, w).self
    /\ UNCHANGED <<unk_symbol, is_label, calls, collateVars, tokenizerVars, pipelineVars>>

\* vocab.to_id(w)
ToId(w) ==
    /\ last' = [op |-> "to_id", arg |-> w, ret |-> to_id(vocab, w)]
    /\ UNCHANGED <<vocab, unk_symbol, is_label, calls, collateVars, tokenizerVars, pipelineVars>>

\* vocab.to_word(i)
ToWord(i) ==
    /\ last' = [op |-> "to_word", arg |-> i, ret |-> to_word(vocab, i)]
    /\ UNCHANGED <<vocab, unk_symbol, is_label, calls, collateVars, tokenizerVars, pipelineVars>>

\* len(vocab)
Len_ ==
    /\ last' = [op |-> "__len__", arg |-> "None", ret |-> len(vocab)]
    /\ UNCHANGED <<vocab, unk_symbol, is_label, calls, collateVars, tokenizerVars, pipelineVars>>

Next ==
    \/ \E w \in Tokens : AddWord(w)
    \/ \E w \in Tokens : ToId(w)
    \/ \E i \in Ids : ToWord(i)
    \/ Len_

Spec == Init /\ [][Next]_vars

----------------------------------------------------------------------------
(* The batch collation: a DataLoader gathers examples into a batch and      *)
(* hands it to PadCollate(dim=0).                                           *)

\* all sequences over S of length at most n
SeqsUpTo(S, n) == UNION {[1 .. k -> S] : k \in 0 .. n}

\* the id sequences of the examples
IdSeqs == SeqsUpTo({0, 1}, MaxSeqLen) \cup {<<1, 2, 3>>, <<4, 5>>}

\* the labels of the examples
Labels == {0, 1}

\* the examples a dataset yields: (sequence, label)
Examples == {<<s, l>> : s \in IdSeqs, l \in Labels}

\* batch items that are not (sequence, label): no label, two labels
Malformed == {<< <<1, 0>> >>, << <<1>>, 0, 1 >>}

\* collate_fn=PadCollate(dim=0)
Collator == PadCollate_init(0)

\* the Vocab object when nothing is done with it
VocabIdle ==
    /\ vocab = Vocab_init("<unk>", FALSE)
    /\ unk_symbol = "<unk>"
    /\ is_label = FALSE
    /\ calls = << >>
    /\ last = [op |-> "__init__", arg |-> "<unk>", ret |-> Return("None")]

InitCollate ==
    /\ VocabIdle
    /\ batch = << >>
    /\ collated = << >>
    /\ TokenizerIdle
    /\ PipelineIdle

\* the DataLoader adds an example to the batch
Fetch(item) ==
    /\ collated = << >>
    /\ Len(batch) < MaxBatch
    /\ batch' = Append(batch, item)
    /\ UNCHANGED <<collated, vocabVars, tokenizerVars, pipelineVars>>

\* the DataLoader calls collate_fn(batch)
Collate ==
    /\ collated = << >>
    /\ collated' = <<PadCollate_call(Collator, batch)>>
    /\ UNCHANGED <<batch, vocabVars, tokenizerVars, pipelineVars>>

\* the rows and labels of a collated batch, as a batch again
Rebatch(out) == [i \in 1 .. Len(out[1]) |-> <<out[1][i], out[2][i]>>]

\* the collated batch is collated again
Recollate ==
    /\ collated # << >>
    /\ ~collated[1].raised
    /\ batch' = Rebatch(collated[1].value)
    /\ collated' = <<PadCollate_call(Collator, Rebatch(collated[1].value))>>
    /\ UNCHANGED <<vocabVars, tokenizerVars, pipelineVars>>

\* the DataLoader goes on to the next batch
NextBatch ==
    /\ collated # << >>
    /\ batch' = << >>
    /\ collated' = << >>
    /\ UNCHANGED <<vocabVars, tokenizerVars, pipelineVars>>

NextCollate ==
    \/ \E item \in Examples \cup Malformed : Fetch(item)
    \/ Collate
    \/ Recollate
    \/ NextBatch

SpecCollate == InitCollate /\ [][NextCollate]_vars

----------------------------------------------------------------------------
(* The tokenizer: a Tokenizer is made and called on a text. *)

\* no batch is collated
CollateIdle ==
    /\ batch = << >>
    /\ collated = << >>

\* my_tokenizer = Tokenizer(lowercase=l)
InitTokenizer ==
    \E l \in BOOLEAN :
        /\ tokenizer = Tokenizer_init(l)
        /\ text = << >>
        /\ tokens = << >>
        /\ VocabIdle
        /\ CollateIdle
        /\ PipelineIdle

\* the caller's text grows by a character
TypeChar(c) ==
    /\ tokens = << >>
    /\ Len(text) < MaxTextLen
    /\ text' = Append(text, c)
    /\ UNCHANGED <<tokenizer, tokens, vocabVars, collateVars, pipelineVars>>

\* my_tokenizer(text)
CallTokenizer ==
    /\ tokens = << >>
    /\ tokens' = <<Tokenizer_call(tokenizer, text)>>
    /\ UNCHANGED <<tokenizer, text, vocabVars, collateVars, pipelineVars>>

NextTokenizer ==
    \/ \E c \in Chars : TypeChar(c)
    \/ CallTokenizer

SpecTokenizer == InitTokenizer /\ [][NextTokenizer]_vars

----------------------------------------------------------------------------
(* The notebook pipeline: the vocabularies are built from the dataset, then *)
(* the DataLoader fetches transformed examples and collates them.           *)

\* the texts of the csv file: 'a A', 'A', 'a  a'
TextPool == {<<"a", " ", "A">>, <<"A">>, <<"a", " ", " ", "a">>}

\* the labels of the csv file: 'p', 'P', 'n', 'n p'
LabelPool == {<<"p">>, <<"P">>, <<"n">>, <<"n", " ", "p">>}

\* the rows of the csv file
Rows == [text : TextPool, label : LabelPool]

\* column c of the dataset
Column(df, c) == [k \in 1 .. Len(df) |-> df[k][c]]

\* dataset = pd.read_csv(...); text_tokenizer = Tokenizer(lowercase=True)
InitPipeline ==
    /\ dataset \in SeqsUpTo(Rows, MaxRows)
    /\ tokenizer = Tokenizer_init(TRUE)
    /\ text = << >>
    /\ tokens = << >>
    /\ text_vocab = Unbound
    /\ label_vocab = Unbound
    /\ sample = << >>
    /\ pc = "start"
    /\ VocabIdle
    /\ CollateIdle

\* text_vocab = make_vocab(dataset['text'])
\* label_vocab = make_vocab(dataset['label'], is_label=True)
MakeVocabs ==
    /\ pc = "start"
    /\ text_vocab' = make_vocab(tokenizer, Column(dataset, "text"), FALSE)
    /\ label_vocab' = make_vocab(tokenizer, Column(dataset, "label"), TRUE)
    /\ pc' = "ready"
    /\ UNCHANGED <<dataset, sample, tokenizerVars, vocabVars, collateVars>>

\* the DataLoader fetches imdb_dataset[idx] for the batch
GetItem(idx) ==
    LET r == getitem(dataset, Tokenize_init(tokenizer),
                     Numericalize_init(text_vocab, label_vocab), idx)
    IN  /\ pc = "ready"
        /\ collated = << >>
        /\ Len(batch) < MaxBatch
        /\ sample' = <<r>>
        /\ IF r.raised
           THEN pc' = "error" /\ batch' = batch
           ELSE pc' = pc /\ batch' = Append(batch, r.value)
        /\ UNCHANGED <<dataset, text_vocab, label_vocab, collated,
                       tokenizerVars, vocabVars>>

\* the DataLoader calls collate_fn on the batch it fetched
CollateFetched ==
    /\ pc = "ready"
    /\ batch # << >>
    /\ collated = << >>
    /\ collated' = <<PadCollate_call(Collator, batch)>>
    /\ UNCHANGED <<batch, pipelineVars, tokenizerVars, vocabVars>>

\* texts, labels = example; the loop goes on to the next batch
NextFetched ==
    /\ pc = "ready"
    /\ collated # << >>
    /\ batch' = << >>
    /\ collated' = << >>
    /\ UNCHANGED <<pipelineVars, tokenizerVars, vocabVars>>

\* the training loop: texts, labels = example; predictions = model(texts),
\* with model = IMDBClassifier(len(text_vocab), ...)
TrainStep ==
    LET model == IMDBClassifier_init(len(text_vocab).value)
    IN  /\ pc = "ready"
        /\ collated # << >>
        /\ ~collated[1].raised
        /\ IF forward(model, collated[1].value[1]).raised
           THEN pc' = "error" /\ UNCHANGED <<batch, collated>>
           ELSE pc' = pc /\ batch' = << >> /\ collated' = << >>
        /\ UNCHANGED <<dataset, text_vocab, label_vocab, sample,
                       tokenizerVars, vocabVars>>

NextPipeline ==
    \/ MakeVocabs
    \/ \E idx \in 1 .. Len(dataset) : GetItem(idx)
    \/ CollateFetched
    \/ NextFetched
    \/ TrainStep

SpecPipeline == InitPipeline /\ [][NextPipeline]_vars

----------------------------------------------------------------------------
(* What the caller knows of the object, from the calls alone. *)

\* the words of a sequence
Range(s) == {s[i] : i \in 1 .. Len(s)}

\* the words a sequence of add_word calls inserts, in first-call order
RECURSIVE FirstSeen(_)
FirstSeen(s) ==
    IF s = << >> THEN << >>
    ELSE LET front == FirstSeen(SubSeq(s, 1, Len(s) - 1))
             w == s[Len(s)]
         IN  IF w \in Range(front) THEN front ELSE Append(front, w)

\* every add_word call on the object so far, the one of __init__ included
Inserted == (IF is_label THEN << >> ELSE <<unk_symbol>>) \o calls

\* the words added so far
Added == Range(Inserted)

\* this step is a call add_word(w)
IsAddWordStep(w) == calls' = Append(calls, w)

----------------------------------------------------------------------------
(* Vocab.add_word *)

\* C1: add_word(t) returns the identifier of t, for a new t and for a t that
\* was already present: the returned value is what to_id(t) gives right after
\* the call.
C1_AddWordReturnsId ==
    last.op = "add_word" => last.ret = to_id(vocab, last.arg)

\* C2: add_word(t) for a t that is already present leaves size, word_to_id and
\* id_to_word as they were; so does adding the same token twice in a row.
C2_AddWordIdempotent ==
    [][\A w \in Tokens :
         /\ (IsAddWordStep(w) /\ w \in DOMAIN vocab.word_to_id) => vocab' = vocab
         /\ (IsAddWordStep(w) /\ calls # << >> /\ calls[Len(calls)] = w)
                => vocab' = vocab]_vars

\* a token was added twice in a row, after another one
C2_Witness ==
    /\ last.op = "add_word"
    /\ Len(calls) >= 3
    /\ calls[Len(calls)] = calls[Len(calls) - 1]
    /\ calls[Len(calls)] # calls[1]
    /\ vocab.size >= 2

----------------------------------------------------------------------------
(* Vocab.to_id and Vocab.to_word on added tokens *)

\* C3: for every token t added with add_word, in either construction mode,
\* to_id(t) returns an id, the same one on every repeated call, and
\* to_word(to_id(t)) is t.
C3_RoundTrip ==
    /\ [](\A t \in Added :
            /\ ~to_id(vocab, t).raised
            /\ to_word(vocab, to_id(vocab, t).value) = Return(t))
    /\ [][/\ \A t \in Added : to_id(vocab', t) = to_id(vocab, t)
          /\ (last.op = "to_id" /\ last'.op = "to_id" /\ last.arg \in Added
                /\ last'.arg = last.arg) => last'.ret = last.ret]_vars

\* to_word was called on the id of an added token of a label vocabulary
C3_Witness ==
    /\ is_label
    /\ Len(calls) >= 3
    /\ last.op = "to_word"
    /\ ~last.ret.raised
    /\ last.ret.value \in Added
    /\ to_id(vocab, last.ret.value) = Return(last.arg)
    /\ last.arg = 1

----------------------------------------------------------------------------
(* The invariants of the two maps *)

\* the ids held by the forward map
AssignedIds == {vocab.word_to_id[w] : w \in DOMAIN vocab.word_to_id}

\* C4: the assigned ids are exactly 0 .. size-1 without gaps or duplicates,
\* and the k-th distinct token inserted (the unknown token of __init__ counted
\* first) has id k-1.
C4_DenseFirstSeenIds ==
    LET fs == FirstSeen(Inserted) IN
    /\ AssignedIds = 0 .. vocab.size - 1
    /\ DOMAIN vocab.id_to_word = 0 .. vocab.size - 1
    /\ \A v, w \in DOMAIN vocab.word_to_id :
           vocab.word_to_id[v] = vocab.word_to_id[w] => v = w
    /\ Len(fs) = vocab.size
    /\ DOMAIN vocab.word_to_id = Range(fs)
    /\ \A k \in 1 .. Len(fs) : vocab.word_to_id[fs[k]] = k - 1

\* the tokens a,b,a,c were added with unknown support: <unk>=0 a=1 b=2 c=3
C4_Witness ==
    /\ ~is_label
    /\ unk_symbol = "<unk>"
    /\ calls = <<"a", "b", "a", "c">>
    /\ last.op = "add_word"
    /\ vocab.size = 4
    /\ vocab.word_to_id = [w \in {"<unk>", "a", "b", "c"} |->
                             CASE w = "<unk>" -> 0 [] w = "a" -> 1
                               [] w = "b" -> 2 [] w = "c" -> 3]
    /\ to_id(vocab, "z") = Return(0)

\* C5: the two maps are mutual inverses: word_to_id[w] = i exactly when
\* id_to_word[i] = w.
C5_MutualInverses ==
    \A w \in (DOMAIN vocab.word_to_id)
                \cup {vocab.id_to_word[i] : i \in DOMAIN vocab.id_to_word},
       i \in (DOMAIN vocab.id_to_word) \cup AssignedIds :
        (w \in DOMAIN vocab.word_to_id /\ vocab.word_to_id[w] = i)
            <=> (i \in DOMAIN vocab.id_to_word /\ vocab.id_to_word[i] = w)

\* three distinct tokens were added, the last call re-adding an earlier one
C5_Witness ==
    /\ last.op = "add_word"
    /\ Cardinality(DOMAIN vocab.word_to_id) >= 3
    /\ Len(calls) > Cardinality(Range(calls))

\* C6: a Vocab constructed with is_label=False always holds the unknown
\* symbol, has unk_id 0 and id_to_word[0] the unknown symbol, and gives id 0
\* to no other token; a token other than the unknown symbol has id 0 only in
\* a Vocab constructed with is_label=True.
C6_UnknownHoldsIdZero ==
    /\ ~is_label =>
         /\ "unk_symbol" \in DOMAIN vocab /\ "unk_id" \in DOMAIN vocab
         /\ vocab.unk_symbol = unk_symbol
         /\ unk_symbol \in DOMAIN vocab.word_to_id
         /\ vocab.word_to_id[unk_symbol] = 0
         /\ vocab.unk_id = 0
         /\ 0 \in DOMAIN vocab.id_to_word
         /\ vocab.id_to_word[0] = unk_symbol
         /\ \A w \in DOMAIN vocab.word_to_id :
                vocab.word_to_id[w] = 0 => w = unk_symbol
    /\ (\E w \in DOMAIN vocab.word_to_id :
            /\ vocab.word_to_id[w] = 0
            /\ ("unk_symbol" \notin DOMAIN vocab \/ w # vocab.unk_symbol))
         => is_label

\* tokens other than the unknown symbol were added with unknown support
C6_Witness ==
    /\ ~is_label
    /\ last.op = "add_word"
    /\ last.arg # unk_symbol
    /\ vocab.size >= 3

----------------------------------------------------------------------------
(* Lookups of what was never added *)

\* C7: with unknown support, to_id(t) of a token t that was never added
\* returns the unknown id 0, whatever has been added.
C7_UnseenTokenGetsUnkId ==
    ~is_label =>
        /\ \A t \in Tokens \ Added : to_id(vocab, t) = Return(0)
        /\ (last.op = "to_id" /\ last.arg \notin Added) => last.ret = Return(0)

\* to_id was called on a token never added, after other tokens were
C7_Witness ==
    /\ ~is_label
    /\ last.op = "to_id"
    /\ last.arg \notin Added
    /\ Len(calls) >= 2
    /\ vocab.size >= 3

\* C8: without unknown support (is_label=True), to_id(t) of a token t that
\* was never added raises and returns no id; a label vocabulary built from
\* pos,neg,pos has size 2 and to_id('neutral') raises.
C8_UnseenLabelRaises ==
    is_label =>
        /\ \A t \in Tokens \ Added : to_id(vocab, t) = Raise("AttributeError")
        /\ (last.op = "to_id" /\ last.arg \notin Added)
              => last.ret = Raise("AttributeError")
        /\ calls = <<"pos", "neg", "pos">>
              => (vocab.size = 2 /\ to_id(vocab, "neutral").raised)

\* to_id('neutral') was called on the label vocabulary built from pos,neg,pos
C8_Witness ==
    /\ is_label
    /\ calls = <<"pos", "neg", "pos">>
    /\ vocab.size = 2
    /\ last.op = "to_id"
    /\ last.arg = "neutral"
    /\ last.ret.raised

\* C9: to_word(i) of an id i that is not assigned returns the unknown symbol
\* with unknown support and raises without it; of an assigned id it returns
\* the token holding that id.
C9_ToWord ==
    /\ \A i \in Ids :
        IF i \in AssignedIds
        THEN \E w \in DOMAIN vocab.word_to_id :
                vocab.word_to_id[w] = i /\ to_word(vocab, i) = Return(w)
        ELSE IF ~is_label
             THEN to_word(vocab, i) = Return(unk_symbol)
             ELSE to_word(vocab, i) = Raise("AttributeError")
    /\ last.op = "to_word" =>
        IF last.arg \in AssignedIds
        THEN /\ ~last.ret.raised
             /\ last.ret.value \in DOMAIN vocab.word_to_id
             /\ vocab.word_to_id[last.ret.value] = last.arg
        ELSE IF ~is_label
             THEN last.ret = Return(unk_symbol)
             ELSE last.ret = Raise("AttributeError")

\* to_word was called on an id that is not assigned, without unknown support
C9_Witness ==
    /\ is_label
    /\ vocab.size >= 2
    /\ last.op = "to_word"
    /\ last.arg \notin AssignedIds
    /\ last.ret.raised

\* C10: size, and len(vocab), is the number of entries of word_to_id and the
\* number of entries of id_to_word, the unknown token counted when present.
C10_SizeCountsEntries ==
    /\ vocab.size = Cardinality(DOMAIN vocab.word_to_id)
    /\ vocab.size = Cardinality(DOMAIN vocab.id_to_word)
    /\ vocab.size = Cardinality(Added)
    /\ ~is_label => unk_symbol \in DOMAIN vocab.word_to_id
    /\ last.op = "__len__" =>
          last.ret = Return(Cardinality(DOMAIN vocab.word_to_id))

\* len was called on a vocabulary holding the unknown token and two more
C10_Witness ==
    /\ ~is_label
    /\ last.op = "__len__"
    /\ last.ret = Return(3)
    /\ Len(calls) >= 3

----------------------------------------------------------------------------
(* The vocabulary as a whole *)

\* C11: for a vocabulary of N distinct entries, the set of to_word(i) for
\* 0 <= i < N is exactly the set of the tokens that were inserted, the unknown
\* symbol of __init__ included.
C11_SetRoundTrip ==
    {to_word(vocab, i) : i \in 0 .. vocab.size - 1} = {Return(t) : t \in Added}

\* to_word was called on the last id of a label vocabulary of three tokens
C11_Witness ==
    /\ is_label
    /\ vocab.size = 3
    /\ last.op = "to_word"
    /\ last.arg = 2
    /\ last.ret.value \in Range(calls)

\* C15 as claimed: with unknown support, after add_word on every token of a
\* corpus, len(vocab) is the number of distinct tokens of the corpus plus 1.
C15_LenIsDistinctPlusOne ==
    (~is_label /\ last.op = "__len__")
        => last.ret = Return(Cardinality(Range(calls)) + 1)

\* C15 as amended: len(vocab) is the number of distinct tokens of the corpus
\* plus 1 when the corpus does not contain the unknown symbol, and exactly the
\* number of distinct tokens when it does.
C15_LenCountsUnknownOnce ==
    (~is_label /\ last.op = "__len__")
        => last.ret = Return(Cardinality(Range(calls))
                               + (IF unk_symbol \in Range(calls) THEN 0 ELSE 1))

\* len was called on a vocabulary built from a corpus holding the unknown symbol
C15_Witness ==
    /\ ~is_label
    /\ last.op = "__len__"
    /\ unk_symbol \in Range(calls)
    /\ Cardinality(Range(calls)) >= 3
    /\ last.ret = Return(Cardinality(Range(calls)))

\* C18: once a token has an id, it keeps it and the id keeps mapping to it
\* through every later add_word, to_id and to_word call; size never
\* decreases and no entry is removed or reassigned.
C18_IdsArePermanent ==
    [][/\ \A t \in DOMAIN vocab.word_to_id :
             /\ t \in DOMAIN vocab'.word_to_id
             /\ vocab'.word_to_id[t] = vocab.word_to_id[t]
       /\ \A i \in DOMAIN vocab.id_to_word :
             /\ i \in DOMAIN vocab'.id_to_word
             /\ vocab'.id_to_word[i] = vocab.id_to_word[i]
       /\ vocab'.size >= vocab.size]_vars

\* a token added first still has its id after three more add_word calls
C18_Witness ==
    /\ Len(calls) >= 4
    /\ Cardinality(Range(calls)) >= 3
    /\ last.op = "to_id"
    /\ last.arg = calls[1]
    /\ last.ret = Return(IF is_label THEN 0 ELSE
                           IF calls[1] = unk_symbol THEN 0 ELSE 1)

----------------------------------------------------------------------------
(* PadCollate *)

\* the longest sequence of a batch
MaxLenOf(b) == Max({Len(b[i][1]) : i \in 1 .. Len(b)})

\* every item of the batch is a (sequence, label) pair
AllPairs(b) == \A i \in 1 .. Len(b) : Len(b[i]) = 2

\* C12: on a non-empty batch pad_collate returns sequences that all have the
\* length of the longest input sequence, each starting with its input
\* sequence and holding 0 at every appended position; [[1,2,3],[4,5]]
\* becomes [[1,2,3],[4,5,0]].
C12_PaddedToMaxLen ==
    (collated # << >> /\ batch # << >> /\ AllPairs(batch)) =>
        /\ ~collated[1].raised
        /\ LET xs == collated[1].value[1] IN
           /\ \A i \in 1 .. Len(batch) :
                /\ Len(xs[i]) = MaxLenOf(batch)
                /\ SubSeq(xs[i], 1, Len(batch[i][1])) = batch[i][1]
                /\ \A k \in Len(batch[i][1]) + 1 .. Len(xs[i]) : xs[i][k] = 0
           /\ (batch = << <<<<1, 2, 3>>, 0>>, <<<<4, 5>>, 1>> >>)
                 => xs = << <<1, 2, 3>>, <<4, 5, 0>> >>

\* the batch [[1,2,3],[4,5]] with labels [0,1] was collated
C12_Witness ==
    /\ batch = << <<<<1, 2, 3>>, 0>>, <<<<4, 5>>, 1>> >>
    /\ collated = <<Return(<< << <<1, 2, 3>>, <<4, 5, 0>> >>, <<0, 1>> >>)>>

\* C13: the output has as many rows as the batch has pairs, row i comes from
\* the sequence of pair i and entry i of the label vector is the label of
\* pair i.
C13_OrderAndPairing ==
    (collated # << >> /\ batch # << >> /\ AllPairs(batch)) =>
        /\ ~collated[1].raised
        /\ LET xs == collated[1].value[1]
               ys == collated[1].value[2]
           IN  /\ Len(xs) = Len(batch)
               /\ Len(ys) = Len(batch)
               /\ \A i \in 1 .. Len(batch) :
                    /\ SubSeq(xs[i], 1, Len(batch[i][1])) = batch[i][1]
                    /\ ys[i] = batch[i][2]

\* three pairs with different sequences and labels 1,0,1 were collated
C13_Witness ==
    /\ collated # << >>
    /\ ~collated[1].raised
    /\ Len(batch) = 3
    /\ AllPairs(batch)
    /\ batch[1][1] # batch[2][1] /\ batch[2][1] # batch[3][1]
    /\ Len(batch[1][1]) < Len(batch[3][1])
    /\ collated[1].value[2] = <<1, 0, 1>>

\* C14: a sequence already as long as the longest one is returned unchanged,
\* so a batch of one pair or of sequences of one length comes back with its
\* input sequences, and collating a collated batch again changes nothing.
C14_NoPaddingNoChange ==
    /\ []((collated # << >> /\ batch # << >> /\ AllPairs(batch)) =>
            /\ ~collated[1].raised
            /\ \A i \in 1 .. Len(batch) :
                 Len(batch[i][1]) = MaxLenOf(batch)
                    => collated[1].value[1][i] = batch[i][1]
            /\ (\A i, j \in 1 .. Len(batch) : Len(batch[i][1]) = Len(batch[j][1]))
                 => collated[1].value[1] = [i \in 1 .. Len(batch) |-> batch[i][1]])
    /\ [][(collated # << >> /\ ~collated[1].raised /\ collated' # << >>
             /\ batch' = Rebatch(collated[1].value))
            => collated' = collated]_vars

\* the collated batch [[1,2,3],[4,5,0]] was collated again
C14_Witness ==
    /\ batch = << <<<<1, 2, 3>>, 0>>, <<<<4, 5, 0>>, 1>> >>
    /\ collated # << >>
    /\ collated[1] = Return(<< << <<1, 2, 3>>, <<4, 5, 0>> >>, <<0, 1>> >>)

\* C17: a batch whose number of sequences differs from its number of labels
\* is rejected by the collator with an error and yields no output.
C17_MalformedBatchRejected ==
    (collated # << >> /\ ~AllPairs(batch)) => collated[1].raised

----------------------------------------------------------------------------
(* Tokenizer *)

\* the whitespace characters
Whitespace == {" ", "\t"}

\* the maximal runs of non-whitespace characters of a text, in textual order
RECURSIVE WhitespaceSeparated(_)
WhitespaceSeparated(t) ==
    IF t = << >> THEN << >>
    ELSE IF t[1] \in Whitespace THEN WhitespaceSeparated(Tail(t))
    ELSE LET n == CHOOSE k \in 1 .. Len(t) :
                      /\ \A j \in 1 .. k : t[j] \notin Whitespace
                      /\ (k = Len(t) \/ t[k + 1] \in Whitespace)
         IN  <<SubSeq(t, 1, n)>> \o WhitespaceSeparated(SubSeq(t, n + 1, Len(t)))

\* C16: the tokenizer returns, in textual order, the whitespace-separated
\* substrings of the text, none empty and none containing whitespace,
\* lower-cased when lowercase=True and unchanged when lowercase=False.
C16_WhitespaceTokens ==
    tokens # << >> =>
        /\ \A k \in 1 .. Len(tokens[1]) :
              /\ tokens[1][k] # << >>
              /\ \A j \in 1 .. Len(tokens[1][k]) : tokens[1][k][j] \notin Whitespace
        /\ tokens[1] = [k \in 1 .. Len(WhitespaceSeparated(text)) |->
                           IF tokenizer.lowercase
                           THEN Lower(WhitespaceSeparated(text)[k])
                           ELSE WhitespaceSeparated(text)[k]]

----------------------------------------------------------------------------
(* Lookups *)

\* C19: to_id, to_word and len leave size, word_to_id and id_to_word as they
\* were, also when the token or id asked for is absent: an unseen token is
\* not inserted by to_id.
C19_LookupsChangeNothing ==
    [][/\ calls' = calls => vocab' = vocab
       /\ (last'.op = "to_id" /\ calls' = calls
             /\ last'.arg \notin DOMAIN vocab.word_to_id)
            => (last'.arg \notin DOMAIN vocab'.word_to_id
                  /\ len(vocab') = len(vocab))]_vars

\* to_id('Climax') was called on a fresh Vocab, whose len is still 1
C19_Witness ==
    /\ ~is_label
    /\ calls = << >>
    /\ last.op = "to_id"
    /\ last.arg = "Climax"
    /\ last.ret = Return(0)
    /\ "Climax" \notin DOMAIN vocab.word_to_id
    /\ len(vocab) = Return(1)

----------------------------------------------------------------------------
(* The pipeline *)

\* C20: label_vocab is built from the labels of the dataset with the
\* tokenizer that Tokenize applies to each sample, so for every row
\* Numericalize finds the first label token in label_vocab and returns its
\* id; the missing-token path of to_id is never reached.
C20_LabelLookupNeverFails ==
    /\ pc # "error"
    /\ sample # << >> => ~sample[1].raised
    /\ pc = "ready" =>
         \A idx \in 1 .. Len(dataset) :
            LET toks == Tokenizer_call(tokenizer, dataset[idx].label)
                r == getitem(dataset, Tokenize_init(tokenizer),
                             Numericalize_init(text_vocab, label_vocab), idx)
            IN  /\ toks # << >>
                /\ \A k \in 1 .. Len(toks) : toks[k] \in DOMAIN label_vocab.word_to_id
                /\ ~r.raised
                /\ r.value[2] = label_vocab.word_to_id[toks[1]]

\* a row labelled 'P' was fetched from a dataset whose first label is 'n p'
C20_Witness ==
    /\ pc = "ready"
    /\ Len(dataset) = 2
    /\ dataset[1].label = <<"n", " ", "p">>
    /\ dataset[2].label = <<"P">>
    /\ sample # << >>
    /\ ~sample[1].raised
    /\ sample[1].value[2] = 1
    /\ Len(batch) = 2
    /\ batch[1][2] = 0

\* the indices the embedding table of the model accepts
ValidIndices == 0 .. len(text_vocab).value - 1

\* C21: Numericalize maps the tokens of a text to the ids text_vocab.to_id
\* gives them, in order; every such id and the padding value 0 of the
\* collator is in 0 .. len(text_vocab)-1, 0 being the unknown id, so the
\* embedding table of size len(text_vocab) is never indexed out of bounds.
C21_IdsAreValidIndices ==
    /\ pc # "error"
    /\ pc = "ready" =>
         /\ text_vocab.unk_id = 0
         /\ 0 \in ValidIndices
         /\ \A idx \in 1 .. Len(dataset) :
              LET toks == Tokenizer_call(tokenizer, dataset[idx].text)
                  r == getitem(dataset, Tokenize_init(tokenizer),
                               Numericalize_init(text_vocab, label_vocab), idx)
              IN  /\ ~r.raised
                  /\ Len(r.value[1]) = Len(toks)
                  /\ \A k \in 1 .. Len(toks) :
                        /\ r.value[1][k] = text_vocab.word_to_id[toks[k]]
                        /\ r.value[1][k] \in ValidIndices
         /\ \A i \in 1 .. Len(batch) : \A k \in 1 .. Len(batch[i][1]) :
               batch[i][1][k] \in ValidIndices
         /\ collated # << >> =>
              /\ ~collated[1].raised
              /\ \A i \in 1 .. Len(collated[1].value[1]) :
                   \A k \in 1 .. Len(collated[1].value[1][i]) :
                      collated[1].value[1][i][k] \in ValidIndices
              /\ ~forward(IMDBClassifier_init(len(text_vocab).value),
                          collated[1].value[1]).raised

\* a batch of the texts 'A' and 'a  a' was collated: the first row is padded
\* with two zeros and the second holds the ids 1 and 2
C21_Witness ==
    /\ pc = "ready"
    /\ Len(dataset) = 2
    /\ dataset[1].text = <<"A">>
    /\ dataset[2].text = <<"a", " ", " ", "a">>
    /\ len(text_vocab) = Return(3)
    /\ collated # << >>
    /\ ~collated[1].raised
    /\ collated[1].value[1] = << <<1, 0, 0>>, <<1, 2, 1>> >>

====
